---- MODULE Spec2Model ----
(***************************************************************************)
(* Model of lib/rpmchecksig.c: the range-based signature/digest            *)
(* verification pipeline (rpmpkgVerifySignatures, initDigests,             *)
(* verifyItems, sinfoDisabled, readFile) and the armored public key        *)
(* importer (rpmcliImportPubkeys, doImport).                               *)
(*                                                                         *)
(* Bit masks (rpmVSFlags, sinfo.disabler, sinfo.range) are modelled as     *)
(* sets of bit names: `a & b` is a \cap b # {}, `a | b` is a \cup b.       *)
(* Bytes of the container are modelled by one token per block read:        *)
(* "L" lead, "S" signature header, "H" main header, "P1","P2" payload.     *)
(* A digest context is modelled by the sequence of tokens fed to it.       *)
(***************************************************************************)
EXTENDS Integers, Sequences, FiniteSets, TLC

\* ------------------------------------------------------------------ bounds
\* Largest number of entries in a signature header.
MaxItems == 2

\* ----------------------------------------------------------- verification
VARIABLES
    pkg,        \* the container behind fd: [sig, hdr] (what the decoders yield)
    flags,      \* rpmVSFlags argument
    cb,         \* rpmsinfoCb argument: "none" (NULL), "formatVerbose", "formatDefault"
    pc,         \* position in rpmpkgVerifySignatures
    sigh,       \* entries of the decoded signature header (headerNext order)
    fdDigests,  \* fd's digest bundle: id -> tokens fed so far
    failed,     \* int failed
    rc,         \* rpmRC rc
    msg,        \* char *msg: "NULL" or the text set by a failing step
    diag,       \* number of rpmlog(RPMLOG_ERR, "%s: %s\n", ...) lines emitted
    trace       \* history: reads, attaches, checks and callback calls, in order

\* ------------------------------------------------------------------ import
VARIABLES
    world,      \* which files rpmioSlurp may deliver: "all" or "few" (fixed by Init)
    argv,       \* the arguments not yet taken by the loop
    ipc,        \* position in rpmcliImportPubkeys / doImport
    arg,        \* *arg, the argument of the running iteration
    t,          \* char *t: NULL or the result of rpmExpand
    fn,         \* const char *fn: the name that is fetched
    iorc,       \* int iorc
    buf,        \* uint8_t *buf: NULL or the slurped buffer, a sequence of segments
    ires,       \* int res of rpmcliImportPubkeys
    keyring,    \* keys held by the keyring of ts
    start,      \* char *start as a byte offset into buf, -1 for NULL
    keyno,      \* int keyno
    dres,       \* int res of the running doImport
    pkt,        \* uint8_t *pkt: the certificates of the decoded block
    pktlen,     \* size_t pktlen
    pkti,       \* pkti - pkt
    itrace      \* history of the running doImport: one record per decoded block

vvars == <<pkg, flags, cb, pc, sigh, fdDigests, failed, rc, msg, diag, trace>>
ivars == <<world, argv, ipc, arg, t, fn, iorc, buf, ires, keyring, start, keyno, dres,
           pkt, pktlen, pkti, itrace>>
\* ------------------------------------------------------------------- batch
VARIABLES
    bnames,     \* ARGV_const_t argv of rpmcliVerifySignatures, as passed
    bnext,      \* argv - (argv as passed): the names taken so far
    bpc,        \* position in rpmcliVerifySignatures
    bres,       \* int res of rpmcliVerifySignatures
    fdopen,     \* FD_t fd refers to an open descriptor
    pending,    \* a cancellation request not yet observed: "no", or where it
                \* arrived: "boundary" (no file open) or "midfile"
    blog        \* history: one record per name taken

bvars == <<bnames, bnext, bpc, bres, fdopen, pending, blog>>
vars == <<vvars, ivars, bvars>>

\* -------------------------------------------------------------- utilities
SeqsUpTo(S, n) == UNION {[1..k -> S] : k \in 0..n}

RECURSIVE SumLen(_)
SumLen(s) == IF s = <<>> THEN 0 ELSE Head(s).len + SumLen(Tail(s))

\* ------------------------------------------------------------ the container
RPMSIG_HEADER == {"HEADER"}
RPMSIG_PAYLOAD == {"PAYLOAD"}
RPMSIG_BOTH == RPMSIG_HEADER \cup RPMSIG_PAYLOAD
RPMVSF_NEEDPAYLOAD == {"NEEDPAYLOAD"}
NODIGESTS == {"NODIGESTS"}
NOSIGNATURES == {"NOSIGNATURES"}

\* Blocks Fread delivers for the payload, in order.
Payload == <<"P1", "P2">>

\* The bytes a stored value of the given range was computed over.
RangeBytes(range) ==
    IF range = RPMSIG_HEADER THEN <<"H">>
    ELSE IF range = RPMSIG_PAYLOAD THEN Payload
    ELSE <<"H">> \o Payload

\* What rpmsinfoInit yields for one header entry: its return code and the
\* struct rpmsinfo_s it filled.  sigres is the checker's verdict on the
\* stored value when given the digest of exactly the bytes of the range.
Item(irc, hashalgo, disabler, range, id, sigres) ==
    [rc |-> irc, hashalgo |-> hashalgo, disabler |-> disabler,
     range |-> range, id |-> id, sigres |-> sigres]

Ranges == {RPMSIG_HEADER, RPMSIG_PAYLOAD, RPMSIG_BOTH}

\* An entry without a hash algorithm (a size tag, an unknown tag).
NoAlgoItem == Item("OK", 0, {}, RPMSIG_BOTH, 0, "OK")
\* An entry whose derivation fails after the hash algorithm is known.
DeriveFailItem == Item("FAIL", 1, NODIGESTS, RPMSIG_HEADER, 1, "FAIL")

Items ==
    {Item("OK", 1, NODIGESTS, r, 1, "OK") : r \in Ranges}
    \cup {Item("OK", 1, NODIGESTS, r, 1, "FAIL") : r \in Ranges}
    \cup {Item("OK", 1, NODIGESTS, r, 2, "OK") : r \in Ranges}
    \cup {Item("OK", 1, NOSIGNATURES, r, 2, "NOKEY") : r \in Ranges}
    \cup {NoAlgoItem, DeriveFailItem}

\* The payload digest entry headerCopyTags may take from the main header:
\* matching the payload or not.
PayloadDigestItem(sigres) == Item("OK", 1, NODIGESTS, RPMSIG_PAYLOAD, 2, sigres)

\* sig: the entries of the signature header; hdr: the entries of the main
\* header that are on the copyTags list (none or the payload digest).
Containers ==
    [sig : SeqsUpTo(Items, MaxItems),
     hdr : {<<>>, <<PayloadDigestItem("OK")>>, <<PayloadDigestItem("FAIL")>>}]

VSFlags == {{}, NODIGESTS, NOSIGNATURES, RPMVSF_NEEDPAYLOAD}
Callbacks == {"none", "formatVerbose", "formatDefault"}

\* ------------------------------------------------------------------ events
Ev(ev, phase, item, id, snap, raw, eff) ==
    [ev |-> ev, phase |-> phase, item |-> item, id |-> id, snap |-> snap,
     raw |-> raw, eff |-> eff]
ReadEv(tok) == Ev("read", {}, 0, 0, <<tok>>, "-", "-")
AbortEv(text) == Ev("abort", {}, 0, 0, <<text>>, "-", "-")

NoCtx == <<"NULL">>

\* ------------------------------------------- the digest bundle of the stream
\* fdInitDigestID: start a context for id unless one is already running.
fdInitDigestID(d, id) ==
    IF id \in DOMAIN d THEN d
    ELSE [i \in DOMAIN d \cup {id} |-> IF i = id THEN <<>> ELSE d[i]]

\* fdDupDigest: a copy of the running context of id, NULL when there is none.
fdDupDigest(d, id) == IF id \in DOMAIN d THEN d[id] ELSE NoCtx

\* fdFiniDigest: finalize and remove the context of id.
fdFiniDigest(d, id) == [i \in DOMAIN d \ {id} |-> d[i]]

\* Every block read from fd is fed to every running context.
fdUpdateDigests(d, tok) == [i \in DOMAIN d |-> Append(d[i], tok)]

\* rpmVerifySignature: the checker's verdict for a finalized copy.
rpmVerifySignature(sinfo, ctx) ==
    IF ctx = NoCtx THEN "FAIL"
    ELSE IF sinfo.sigres = "NOKEY" THEN "NOKEY"
    ELSE IF ctx = RangeBytes(sinfo.range) THEN sinfo.sigres
    ELSE "FAIL"

\* --------------------------------------------------------------- callbacks
formatVerbose(sinfo, sigres) == sigres

\* Variant: a missing key is reported as OK by the summary callback.
formatDefault_NoKeyIsOk(sinfo, sigres) ==
    IF sigres = "NOKEY" THEN "OK" ELSE sigres

formatDefault(sinfo, sigres) == sigres

\* A callback supplied by another caller of rpmpkgVerifySignatures, which
\* adjusts the result: it accepts what the checker refused and refuses what
\* the checker accepted.
cbAdjust(sinfo, sigres) == IF sigres = "OK" THEN "FAIL" ELSE "OK"

\* rc = cb(&sinfo, rc, result)
CallCb(cbk, sinfo, sigres) ==
    IF cbk = "formatVerbose" THEN formatVerbose(sinfo, sigres)
    ELSE IF cbk = "cbAdjust" THEN cbAdjust(sinfo, sigres)
    ELSE formatDefault(sinfo, sigres)

\* ------------------------------------------------------------ sinfoDisabled
\* Variant: the payload-optional flag is not consulted.
sinfoDisabled_NoNeedPayload(sinfo, vsflags) ==
    IF sinfo.hashalgo = 0 THEN TRUE
    ELSE IF vsflags \cap sinfo.disabler # {} THEN TRUE
    ELSE FALSE

sinfoDisabled(sinfo, vsflags) ==
    IF sinfo.hashalgo = 0 THEN TRUE
    ELSE IF vsflags \cap sinfo.disabler # {} THEN TRUE
    ELSE IF vsflags \cap RPMVSF_NEEDPAYLOAD # {}
            /\ sinfo.range \cap RPMSIG_PAYLOAD # {} THEN TRUE
    ELSE FALSE

\* -------------------------------------------------------------- initDigests
\* One iteration of the loop of initDigests for entry i of the header h;
\* st = [d, tr] is the bundle and the history.
initDigestsStep(st, h, i, range, fl) ==
    LET sinfo == h[i] IN
    IF sinfo.rc # "OK" THEN st
    ELSE IF sinfoDisabled(sinfo, fl) THEN st
    ELSE IF sinfo.range \cap range # {}
    THEN [d |-> fdInitDigestID(st.d, sinfo.id),
          tr |-> Append(st.tr,
                   Ev("attach", range, i, sinfo.id, <<>>,
                      IF sinfo.id \in DOMAIN st.d THEN "dup" ELSE "new", "-"))]
    ELSE st

RECURSIVE initDigestsFrom(_, _, _, _, _)
initDigestsFrom(st, h, i, range, fl) ==
    IF i > Len(h) THEN st
    ELSE initDigestsFrom(initDigestsStep(st, h, i, range, fl), h, i + 1, range, fl)

initDigests(st, h, range, fl) == initDigestsFrom(st, h, 1, range, fl)

\* -------------------------------------------------------------- verifyItems
\* Variant: a failed derivation of an enabled item is not counted.
verifyItemsStep_DropDeriveFail(st, h, i, range, fl, cbk) ==
    LET sinfo == h[i] IN
    IF sinfoDisabled(sinfo, fl) THEN st
    ELSE IF sinfo.range = range /\ sinfo.rc = "OK"
    THEN LET ctx == fdDupDigest(st.d, sinfo.id)
             raw == rpmVerifySignature(sinfo, ctx)
             eff == IF cbk # "none" THEN CallCb(cbk, sinfo, raw) ELSE raw
             chk == Ev("check", range, i, sinfo.id, ctx, raw, "-")
             cal == Ev("cb", range, i, sinfo.id, ctx, raw, eff)
         IN [d |-> fdFiniDigest(st.d, sinfo.id),
             tr |-> IF cbk # "none" THEN st.tr \o <<chk, cal>>
                    ELSE Append(st.tr, chk),
             failed |-> IF eff # "OK" THEN 1 ELSE st.failed]
    ELSE st

\* Variant: the loop stops evaluating items after the first failure.
verifyItemsStep_StopAfterFail(st, h, i, range, fl, cbk) ==
    LET sinfo == h[i] IN
    IF st.failed = 1 THEN st
    ELSE IF sinfoDisabled(sinfo, fl) THEN st
    ELSE IF sinfo.range = range /\ sinfo.rc = "OK"
    THEN LET ctx == fdDupDigest(st.d, sinfo.id)
             raw == rpmVerifySignature(sinfo, ctx)
             eff == IF cbk # "none" THEN CallCb(cbk, sinfo, raw) ELSE raw
             chk == Ev("check", range, i, sinfo.id, ctx, raw, "-")
             cal == Ev("cb", range, i, sinfo.id, ctx, raw, eff)
         IN [d |-> fdFiniDigest(st.d, sinfo.id),
             tr |-> IF cbk # "none" THEN st.tr \o <<chk, cal>>
                    ELSE Append(st.tr, chk),
             failed |-> IF eff # "OK" THEN 1 ELSE st.failed]
    ELSE [st EXCEPT !.failed = IF sinfo.rc # "OK" THEN 1 ELSE @]

\* Variant: the raw result of the checker decides, whatever the callback
\* returned.
verifyItemsStep_RawDecides(st, h, i, range, fl, cbk) ==
    LET sinfo == h[i] IN
    IF sinfoDisabled(sinfo, fl) THEN st
    ELSE IF sinfo.range = range /\ sinfo.rc = "OK"
    THEN LET ctx == fdDupDigest(st.d, sinfo.id)
             raw == rpmVerifySignature(sinfo, ctx)
             eff == IF cbk # "none" THEN CallCb(cbk, sinfo, raw) ELSE raw
             chk == Ev("check", range, i, sinfo.id, ctx, raw, "-")
             cal == Ev("cb", range, i, sinfo.id, ctx, raw, eff)
         IN [d |-> fdFiniDigest(st.d, sinfo.id),
             tr |-> IF cbk # "none" THEN st.tr \o <<chk, cal>>
                    ELSE Append(st.tr, chk),
             failed |-> IF raw # "OK" THEN 1 ELSE st.failed]
    ELSE [st EXCEPT !.failed = IF sinfo.rc # "OK" THEN 1 ELSE @]

\* One iteration of the loop of verifyItems for entry i of the header h;
\* st = [d, tr, failed].
verifyItemsStep(st, h, i, range, fl, cbk) ==
    LET sinfo == h[i] IN
    IF sinfoDisabled(sinfo, fl) THEN st
    ELSE IF sinfo.range = range /\ sinfo.rc = "OK"
    THEN LET ctx == fdDupDigest(st.d, sinfo.id)
             raw == rpmVerifySignature(sinfo, ctx)
             eff == IF cbk # "none" THEN CallCb(cbk, sinfo, raw) ELSE raw
             chk == Ev("check", range, i, sinfo.id, ctx, raw, "-")
             cal == Ev("cb", range, i, sinfo.id, ctx, raw, eff)
         IN [d |-> fdFiniDigest(st.d, sinfo.id),
             tr |-> IF cbk # "none" THEN st.tr \o <<chk, cal>>
                    ELSE Append(st.tr, chk),
             failed |-> IF eff # "OK" THEN 1 ELSE st.failed]
    ELSE [st EXCEPT !.failed = IF sinfo.rc # "OK" THEN 1 ELSE @]

RECURSIVE verifyItemsFrom(_, _, _, _, _, _)
verifyItemsFrom(st, h, i, range, fl, cbk) ==
    IF i > Len(h) THEN st
    ELSE verifyItemsFrom(verifyItemsStep(st, h, i, range, fl, cbk),
                         h, i + 1, range, fl, cbk)

\* int failed = 0; ... return failed;
verifyItems(d, tr, h, range, fl, cbk) ==
    verifyItemsFrom([d |-> d, tr |-> tr, failed |-> 0], h, 1, range, fl, cbk)

\* ----------------------------------------------------------------- readFile
\* The Fread loop: n blocks are delivered, then Fread returns 0 (end of
\* stream, n = Len(Payload)) or a negative count (err).
readFileDigests(d, n) ==
    LET RECURSIVE feed(_, _)
        feed(dd, k) == IF k > n THEN dd
                       ELSE feed(fdUpdateDigests(dd, Payload[k]), k + 1)
    IN feed(d, 1)

readFileTrace(tr, n, count) ==
    tr \o [k \in 1..n |-> ReadEv(Payload[k])]
       \o (IF count < 0 THEN <<AbortEv("Fread failed")>> ELSE <<>>)

\* return (count != 0), with msg set when count < 0
readFileRc(count) == IF count # 0 THEN 1 ELSE 0
readFileMsg(m, count) == IF count < 0 THEN "Fread failed" ELSE m

\* --------------------------------------------------- rpmpkgVerifySignatures
BatchIdle ==
    /\ bnames = <<>> /\ bnext = 0 /\ bpc = "idle" /\ bres = 0
    /\ fdopen = FALSE /\ pending = "no" /\ blog = <<>>

ImportIdle ==
    /\ world = "none" /\ argv = <<>> /\ ipc = "idle" /\ arg = <<>> /\ t = <<>>
    /\ fn = <<>> /\ iorc = 0 /\ buf = <<>> /\ ires = 0 /\ keyring = {}
    /\ start = -1 /\ keyno = 0 /\ dres = 0
    /\ pkt = <<>> /\ pktlen = 0 /\ pkti = 0 /\ itrace = <<>>

\* State at entry: rc = RPMRC_FAIL, failed = 0, msg = NULL, nothing decoded;
\* cbs: the callbacks the caller may pass.
Entry(cbs) ==
    /\ pkg \in Containers
    /\ flags \in VSFlags
    /\ cb \in cbs
    /\ pc = "lead"
    /\ sigh = <<>>
    /\ fdDigests = <<>>
    /\ failed = 0
    /\ rc = "FAIL"
    /\ msg = "NULL"
    /\ diag = 0
    /\ trace = <<>>
    /\ ImportIdle
    /\ BatchIdle

\* Called by rpmpkgVerifySigs (or with no callback).
Init == Entry(Callbacks)
\* Called by another caller, with no callback or with one that adjusts.
InitAdjust == Entry({"none", "cbAdjust"})

\* A step that reads one block of fd or decodes one blob: on success the
\* block (tok, "" for a decode) is fed to the running contexts and control
\* moves to next; on failure msg is set and control jumps to exit.
ReadOrDecode(ok, tok, next, text) ==
    IF ok
    THEN /\ pc' = next
         /\ fdDigests' = IF tok = "" THEN fdDigests ELSE fdUpdateDigests(fdDigests, tok)
         /\ trace' = IF tok = "" THEN trace ELSE Append(trace, ReadEv(tok))
         /\ msg' = msg
    ELSE /\ pc' = "exit"
         /\ msg' = text
         /\ trace' = Append(trace, AbortEv(text))
         /\ fdDigests' = fdDigests

\* if (rpmLeadRead(fd, NULL, &msg)) goto exit;
LeadRead ==
    /\ pc = "lead"
    /\ \E ok \in BOOLEAN : ReadOrDecode(ok, "L", "sigread", "lead")
    /\ UNCHANGED <<pkg, flags, cb, sigh, failed, rc, diag, ivars, bvars>>

\* if (hdrblobRead(fd, 1, 1, RPMTAG_HEADERSIGNATURES, &sigblob, &msg)) goto exit;
SigBlobRead ==
    /\ pc = "sigread"
    /\ \E ok \in BOOLEAN : ReadOrDecode(ok, "S", "sigimport", "sigblob read")
    /\ UNCHANGED <<pkg, flags, cb, sigh, failed, rc, diag, ivars, bvars>>

\* if (hdrblobImport(&sigblob, 0, &sigh, &msg)) goto exit;
SigBlobImport ==
    /\ pc = "sigimport"
    /\ \E ok \in BOOLEAN :
        /\ ReadOrDecode(ok, "", "inith", "sigblob import")
        /\ sigh' = IF ok THEN pkg.sig ELSE sigh
    /\ UNCHANGED <<pkg, flags, cb, failed, rc, diag, ivars, bvars>>

\* initDigests(fd, sigh, RPMSIG_HEADER, flags);
InitHeaderDigests ==
    /\ pc = "inith"
    /\ LET st == initDigests([d |-> fdDigests, tr |-> trace], sigh, RPMSIG_HEADER, flags)
       IN /\ fdDigests' = st.d
          /\ trace' = st.tr
    /\ pc' = "hdrread"
    /\ UNCHANGED <<pkg, flags, cb, sigh, failed, rc, msg, diag, ivars, bvars>>

\* if (hdrblobRead(fd, 1, 1, RPMTAG_HEADERIMMUTABLE, &blob, &msg)) goto exit;
HeaderBlobRead ==
    /\ pc = "hdrread"
    /\ \E ok \in BOOLEAN : ReadOrDecode(ok, "H", "verifyh", "blob read")
    /\ UNCHANGED <<pkg, flags, cb, sigh, failed, rc, diag, ivars, bvars>>

\* failed += verifyItems(fd, sigh, range, flags, keyring, cb);
VerifyPhase(range, next) ==
    LET st == verifyItems(fdDigests, trace, sigh, range, flags, cb)
    IN /\ fdDigests' = st.d
       /\ trace' = st.tr
       /\ failed' = failed + st.failed
       /\ pc' = next

VerifyHeaderItems ==
    /\ pc = "verifyh"
    /\ VerifyPhase(RPMSIG_HEADER, "hdrimport")
    /\ UNCHANGED <<pkg, flags, cb, sigh, rc, msg, diag, ivars, bvars>>

\* headerCopyTags(h, sigh, copyTags): the payload digest of the main header,
\* when it has one, becomes an entry of sigh.
headerCopyTags(h, to) == to \o h

\* if (hdrblobImport(&blob, 0, &h, &msg)) goto exit; headerCopyTags(...);
HeaderBlobImport ==
    /\ pc = "hdrimport"
    /\ \E ok \in BOOLEAN :
        /\ ReadOrDecode(ok, "", "initp", "blob import")
        /\ sigh' = IF ok THEN headerCopyTags(pkg.hdr, sigh) ELSE sigh
    /\ UNCHANGED <<pkg, flags, cb, failed, rc, diag, ivars, bvars>>

\* initDigests(fd, sigh, RPMSIG_PAYLOAD, flags);
InitPayloadDigests ==
    /\ pc = "initp"
    /\ LET st == initDigests([d |-> fdDigests, tr |-> trace], sigh, RPMSIG_PAYLOAD, flags)
       IN /\ fdDigests' = st.d
          /\ trace' = st.tr
    /\ pc' = "payload"
    /\ UNCHANGED <<pkg, flags, cb, sigh, failed, rc, msg, diag, ivars, bvars>>

\* if (readFile(fd, &msg)) goto exit;
\* Fread delivers n blocks and then the final count: 0 at the end of the
\* stream, -1 on a read error.
ReadPayload ==
    /\ pc = "payload"
    /\ \E n \in 0..Len(Payload), count \in {0, -1} :
        /\ count = 0 => n = Len(Payload)
        /\ fdDigests' = readFileDigests(fdDigests, n)
        /\ trace' = readFileTrace(trace, n, count)
        /\ msg' = readFileMsg(msg, count)
        /\ pc' = IF readFileRc(count) # 0 THEN "exit" ELSE "verifyp"
    /\ UNCHANGED <<pkg, flags, cb, sigh, failed, rc, diag, ivars, bvars>>

VerifyPayloadItems ==
    /\ pc = "verifyp"
    /\ VerifyPhase(RPMSIG_PAYLOAD, "verifyhp")
    /\ UNCHANGED <<pkg, flags, cb, sigh, rc, msg, diag, ivars, bvars>>

VerifyBothItems ==
    /\ pc = "verifyhp"
    /\ VerifyPhase(RPMSIG_BOTH, "result")
    /\ UNCHANGED <<pkg, flags, cb, sigh, rc, msg, diag, ivars, bvars>>

\* if (failed == 0) rc = RPMRC_OK;
SetResult ==
    /\ pc = "result"
    /\ rc' = IF failed = 0 THEN "OK" ELSE rc
    /\ pc' = "exit"
    /\ UNCHANGED <<pkg, flags, cb, sigh, fdDigests, failed, msg, diag, trace, ivars, bvars>>

\* Variant: a diagnostic line for every failed file, aborted or not.
Exit_LogAnyFail ==
    /\ pc = "exit"
    /\ diag' = IF rc # "OK" THEN diag + 1 ELSE diag
    /\ pc' = "done"
    /\ UNCHANGED <<pkg, flags, cb, sigh, fdDigests, failed, rc, msg, trace, ivars, bvars>>

\* exit: if (rc && msg != NULL) rpmlog(RPMLOG_ERR, ...); ... return rc;
Exit ==
    /\ pc = "exit"
    /\ diag' = IF rc # "OK" /\ msg # "NULL" THEN diag + 1 ELSE diag
    /\ pc' = "done"
    /\ UNCHANGED <<pkg, flags, cb, sigh, fdDigests, failed, rc, msg, trace, ivars, bvars>>

Next ==
    \/ LeadRead
    \/ SigBlobRead
    \/ SigBlobImport
    \/ InitHeaderDigests
    \/ HeaderBlobRead
    \/ VerifyHeaderItems
    \/ HeaderBlobImport
    \/ InitPayloadDigests
    \/ ReadPayload
    \/ VerifyPayloadItems
    \/ VerifyBothItems
    \/ SetResult
    \/ Exit

Spec == Init /\ [][Next]_vars
SpecAdjust == InitAdjust /\ [][Next]_vars

\* ================================================================== claims
\* Vocabulary of the claims, stated on the history and on the inputs only.

\* An item is disabled: no usable hash algorithm, its disabler bit set in
\* the flags, or a payload-covering item under the payload-optional flag.
ItemOff(it) ==
    \/ it.hashalgo = 0
    \/ \E b \in it.disabler : b \in flags
    \/ ("NEEDPAYLOAD" \in flags /\ "PAYLOAD" \in it.range)

EventsOf(kind) == {k \in 1..Len(trace) : trace[k].ev = kind}
ItemEvents(kind, i) == {k \in EventsOf(kind) : trace[k].item = i}
WasRead(tok) == \E k \in EventsOf("read") : trace[k].snap = <<tok>>
Aborted == EventsOf("abort") # {}
Returned == pc = "done"

\* lead, signature header, main header and payload read and decoded.
AllSectionsRead ==
    /\ ~Aborted
    /\ WasRead("L") /\ WasRead("S") /\ WasRead("H")
    /\ \A k \in 1..Len(Payload) : WasRead(Payload[k])

\* The effective result of a check: what the callback returned, the raw
\* result when there is no callback.
EffectiveResults(i) ==
    IF cb = "none" THEN {trace[k].raw : k \in ItemEvents("check", i)}
    ELSE {trace[k].eff : k \in ItemEvents("cb", i)}

\* Entry i of the header had a non-OK outcome in some phase.
ItemNotOk(i) ==
    /\ ~ItemOff(sigh[i])
    /\ (sigh[i].rc # "OK" \/ EffectiveResults(i) \ {"OK"} # {})

ResultIffAllOk ==
    Returned =>
        (rc = "OK" <=> (AllSectionsRead /\ \A i \in 1..Len(sigh) : ~ItemNotOk(i)))

\* C1 (as claimed): the result is OK iff the four sections were read and
\* decoded and no enabled item had a non-OK outcome; and a container whose
\* signature header holds no entry and whose sections are readable is OK.
C1_Claimed ==
    /\ ResultIffAllOk
    /\ (Returned /\ AllSectionsRead /\ pkg.sig = <<>>) => rc = "OK"

\* C1 (amended): the result is OK iff the four sections were read and decoded
\* and no enabled item had a non-OK outcome, the payload digest entry copied
\* from the main header included; a container with no entry in the signature
\* header and no payload digest in the main header, whose sections are
\* readable, is OK.
C1_ResultIffAllOk ==
    /\ ResultIffAllOk
    /\ (Returned /\ AllSectionsRead /\ pkg.sig = <<>> /\ pkg.hdr = <<>>) => rc = "OK"

C1_Witness ==
    /\ Returned /\ AllSectionsRead /\ pkg.sig = <<>> /\ pkg.hdr = <<>> /\ rc = "OK"

\* C2: every HEADER_AND_PAYLOAD item is checked against a snapshot of the
\* main header block followed by the payload blocks, never against the
\* header alone or the payload alone.
C2_BothRangeSnapshot ==
    \A k \in EventsOf("check") :
        trace[k].phase = RPMSIG_BOTH =>
            /\ trace[k].snap = <<"H">> \o Payload
            /\ trace[k].snap # <<"H">>
            /\ trace[k].snap # Payload

\* C3: when no step aborts, every enabled item whose derivation succeeded is
\* checked exactly once, in the phase of its range, and handed to the
\* callback exactly once, whatever the results of the other items.
C3_EveryItemOnce ==
    (pc \in {"result", "exit", "done"} /\ ~Aborted) =>
        \A i \in 1..Len(sigh) :
            (~ItemOff(sigh[i]) /\ sigh[i].rc = "OK") =>
                /\ Cardinality(ItemEvents("check", i)) = 1
                /\ \A k \in ItemEvents("check", i) : trace[k].phase = sigh[i].range
                /\ cb # "none" =>
                    /\ Cardinality(ItemEvents("cb", i)) = 1
                    /\ \A k \in ItemEvents("cb", i) : trace[k].phase = sigh[i].range

\* Two enabled items, the first one fails its check, the second is checked.
C3_Witness ==
    /\ Returned /\ ~Aborted /\ cb # "none" /\ Len(sigh) >= 2
    /\ ~ItemOff(sigh[1]) /\ ~ItemOff(sigh[2])
    /\ sigh[1].rc = "OK" /\ sigh[2].rc = "OK"
    /\ EffectiveResults(1) # {} /\ EffectiveResults(1) # {"OK"}
    /\ ItemEvents("cb", 2) # {}
    /\ \A k \in ItemEvents("cb", 2) : \A j \in ItemEvents("cb", 1) : j < k

\* C4: a disabled item is never attached, checked or handed to the callback,
\* and with every item disabled the result is OK whenever the sections are
\* readable.
C4_DisabledIgnored ==
    /\ \A k \in 1..Len(trace) :
          trace[k].item # 0 => ~ItemOff(sigh[trace[k].item])
    /\ (Returned /\ AllSectionsRead /\ \A i \in 1..Len(sigh) : ItemOff(sigh[i]))
          => rc = "OK"
    /\ (Returned /\ AllSectionsRead /\ rc # "OK")
          => \E i \in 1..Len(sigh) : ~ItemOff(sigh[i])

\* Every item disabled by the flags, one of them with a wrong stored value.
C4_Witness ==
    /\ Returned /\ AllSectionsRead /\ rc = "OK" /\ Len(sigh) >= 2
    /\ \A i \in 1..Len(sigh) : ItemOff(sigh[i]) /\ sigh[i].hashalgo # 0
    /\ \E i \in 1..Len(sigh) : sigh[i].sigres = "FAIL"

\* C5: an aborting step gives FAIL, exactly one diagnostic line and nothing
\* after it (the abort is the last event); without an abort there is no
\* diagnostic line, even when items failed.
C5_AbortDiagnostics ==
    /\ Aborted =>
          /\ pc \in {"exit", "done"}
          /\ rc = "FAIL"
          /\ trace[Len(trace)].ev = "abort"
          /\ Cardinality(EventsOf("abort")) = 1
    /\ (Returned /\ Aborted) => diag = 1
    /\ ~Returned => diag = 0
    /\ (Returned /\ ~Aborted) => diag = 0

\* The payload read fails after items were attached and checked.
C5_Witness ==
    /\ Returned /\ Aborted /\ diag = 1 /\ rc = "FAIL"
    /\ WasRead("H") /\ EventsOf("check") # {} /\ ~WasRead(Payload[Len(Payload)])

\* C6: when the function returns no context started by the pipeline is still
\* running on the stream.
C6_NothingAttachedAtReturn ==
    Returned => DOMAIN fdDigests = {}

\* The range of the verifyItems call control is at.
AtVerify == pc \in {"verifyh", "verifyp", "verifyhp"}
PhaseRange ==
    IF pc = "verifyh" THEN RPMSIG_HEADER
    ELSE IF pc = "verifyp" THEN RPMSIG_PAYLOAD
    ELSE RPMSIG_BOTH

RawResults(i) == {trace[k].raw : k \in ItemEvents("check", i)}
\* Every enabled item was derived and got the raw result OK where checked.
RawAllOk ==
    \A i \in 1..Len(sigh) :
        ~ItemOff(sigh[i]) => (sigh[i].rc = "OK" /\ RawResults(i) \subseteq {"OK"})

\* C11: the verbose and the summary callback return the raw result they
\* were given, for every item and every raw result; from any state a
\* verification phase gives the same checks, the same bundle and the same
\* failure flag with either of them, and the result of the file is the one
\* the raw results give.
C11_CallbacksPassThrough ==
    /\ \A it \in Items, r \in {"OK", "FAIL", "NOKEY"} :
          formatVerbose(it, r) = r /\ formatDefault(it, r) = r
    /\ cb \in {"formatVerbose", "formatDefault"} =>
          \A k \in EventsOf("cb") : trace[k].eff = trace[k].raw
    /\ AtVerify =>
          verifyItems(fdDigests, trace, sigh, PhaseRange, flags, "formatVerbose")
            = verifyItems(fdDigests, trace, sigh, PhaseRange, flags, "formatDefault")
    /\ Returned => (rc = "OK" <=> (AllSectionsRead /\ RawAllOk))

\* The summary callback was handed an OK and a missing key.
C11_Witness ==
    /\ Returned /\ AllSectionsRead /\ cb = "formatDefault" /\ rc = "FAIL"
    /\ \E k \in EventsOf("cb") : trace[k].raw = "NOKEY" /\ trace[k].eff = "NOKEY"
    /\ \E k \in EventsOf("cb") : trace[k].raw = "OK" /\ trace[k].eff = "OK"

\* C14: items checked in one phase under one identity each get a copy of a
\* running context that has seen all the bytes of the range.
C14_IndependentFinalize ==
    \A j \in EventsOf("check"), k \in EventsOf("check") :
        (j < k /\ trace[j].phase = trace[k].phase /\ trace[j].id = trace[k].id) =>
            /\ trace[j].snap # NoCtx /\ trace[j].snap = RangeBytes(trace[j].phase)
            /\ trace[k].snap # NoCtx /\ trace[k].snap = RangeBytes(trace[k].phase)

Has(seq, x) == \E n \in 1..Len(seq) : seq[n] = x

\* C15: no context runs while the lead and the signature header are read
\* and none ever holds their bytes; every HEADER item is checked against the
\* main header block only and every PAYLOAD item against the payload blocks
\* only.
C15_SnapshotsExact ==
    /\ pc \in {"lead", "sigread", "sigimport"} => DOMAIN fdDigests = {}
    /\ \A i \in DOMAIN fdDigests : ~Has(fdDigests[i], "L") /\ ~Has(fdDigests[i], "S")
    /\ \A k \in EventsOf("check") :
          /\ ~Has(trace[k].snap, "L") /\ ~Has(trace[k].snap, "S")
          /\ trace[k].phase = RPMSIG_HEADER => trace[k].snap = <<"H">>
          /\ trace[k].phase = RPMSIG_PAYLOAD => trace[k].snap = Payload

\* C17: the file fails iff a step aborted, an enabled item could not be
\* derived, or the effective result of a check (what the callback returned,
\* the raw result with no callback) is not OK.
C17_EffectiveDecides ==
    /\ Returned =>
          (rc = "OK" <=>
              /\ AllSectionsRead
              /\ \A i \in 1..Len(sigh) : ~ItemOff(sigh[i]) => sigh[i].rc = "OK"
              /\ \A k \in EventsOf("cb") : trace[k].eff = "OK"
              /\ cb = "none" => \A k \in EventsOf("check") : trace[k].raw = "OK")
    /\ (Returned /\ \E k \in EventsOf("cb") : trace[k].raw = "OK" /\ trace[k].eff # "OK")
          => rc = "FAIL"

\* The checker refused an item and found no key for another one, the
\* callback returned OK for both, the file is OK.
C17_Witness ==
    /\ Returned /\ AllSectionsRead /\ cb = "cbAdjust" /\ rc = "OK"
    /\ \E k \in EventsOf("cb") : trace[k].raw = "FAIL" /\ trace[k].eff = "OK"
    /\ \E k \in EventsOf("cb") : trace[k].raw = "NOKEY" /\ trace[k].eff = "OK"

\* Entry i is enabled and its derivation reported an error.
DeriveFailed(i) == ~ItemOff(sigh[i]) /\ sigh[i].rc # "OK"

\* C18: a derivation error of an enabled item does not abort, the other
\* items are still checked, and the callback is called for the item.
C18_DeriveErrorSurfaced ==
    (pc \in {"result", "exit", "done"} /\ ~Aborted) =>
        \A i \in 1..Len(sigh) :
            /\ (~ItemOff(sigh[i]) /\ sigh[i].rc = "OK") => ItemEvents("check", i) # {}
            /\ (DeriveFailed(i) /\ cb # "none") => ItemEvents("cb", i) # {}

\* ======================================================== the key importer
\* char const * const pgpmark = "-----BEGIN PGP "; marklen = strlen(pgpmark)
marklen == 15
\* blen < 64
MinBufLen == 64

\* Largest number of segments of a slurped buffer.
MaxSegs == 3
\* Largest number of certificates in one decoded block.
MaxCerts == 2
\* Largest number of arguments of an import batch over few files.
MaxArgs == 1

\* A NULL char pointer; strings are sequences of one-character strings.
NullStr == <<"NULL">>
\* The character a char pointer points at; the terminating NUL for "".
FirstChar(str) == IF str = <<>> THEN "NUL" ELSE str[1]

\* A buffer is a sequence of segments: an occurrence of pgpmark, a run of
\* text bytes holding no occurrence of it and no NUL, or one NUL byte.
MarkSeg == [kind |-> "mark", len |-> marklen]
TextSeg(n) == [kind |-> "text", len |-> n]
NulSeg == [kind |-> "nul", len |-> 1]
NullBuf == <<[kind |-> "NULL", len |-> 0]>>
Segs == {MarkSeg, TextSeg(49), TextSeg(48), NulSeg}
Buffers == SeqsUpTo(Segs, MaxSegs)

\* Byte offset of segment k of b.
Off(b, k) == SumLen(SubSeq(b, 1, k - 1))

\* strstr(buf + from, pgpmark) as an offset into buf, -1 for NULL: the first
\* occurrence at or after from, in the C string that ends at the first NUL.
strstr(b, from) ==
    LET hits == {k \in 1..Len(b) :
                    /\ b[k].kind = "mark"
                    /\ Off(b, k) >= from
                    /\ \A j \in 1..(k - 1) : ~(b[j].kind = "nul" /\ Off(b, j) >= from)}
    IN IF hits = {} THEN -1
       ELSE Off(b, CHOOSE k \in hits : \A j \in hits : k <= j)

\* What rpmioSlurp delivers: a failure, no buffer, or a buffer.
Fetched(rc0, b) == [iorc |-> rc0, buf |-> b]
AllFiles ==
    {Fetched(2, NullBuf), Fetched(0, NullBuf)} \cup {Fetched(0, b) : b \in Buffers}
FewFiles ==
    {Fetched(2, NullBuf), Fetched(0, <<MarkSeg, TextSeg(48)>>),
     Fetched(0, <<MarkSeg, TextSeg(49)>>)}
\* Buffers long enough to hold a NUL byte between two markers and still
\* pass the length test of rpmcliImportPubkeys.
LongBuffers == [1..4 -> {MarkSeg, TextSeg(49), NulSeg}]
LongFiles == {Fetched(0, b) : b \in LongBuffers}
Files(w) ==
    IF w = "all" THEN AllFiles
    ELSE IF w = "long" THEN LongFiles
    ELSE FewFiles

\* The certificates of a decoded block.  kind: "ok" (the keyring takes it),
\* "reject" (rpmtsImportPubkey fails), "badlen" (pgpPubKeyCertLen fails);
\* len: the length pgpPubKeyCertLen reports.
Cert(kind, len) == [kind |-> kind, len |-> len]
Certs == {Cert("ok", 2), Cert("reject", 1), Cert("badlen", 1)}

\* The key of a certificate is named by where it sits: the offset of its
\* block in the buffer and its offset in the decoded block.
KeyAt(st, off) == <<st, off>>

\* pgpParsePkts(start, &pkt, &pktlen): PGPARMOR_PUBKEY with the decoded
\* certificates, or anything else; nothing is decoded from a NULL start.
Decoded(armor, certs) == [armor |-> armor, certs |-> certs]
pgpParsePkts(st) ==
    {Decoded("OTHER", <<>>)}
    \cup (IF st = -1 THEN {}
          ELSE {Decoded("PUBKEY", c) : c \in SeqsUpTo(Certs, MaxCerts)})

\* The certificate at byte offset off of the decoded block p.
RECURSIVE CertAt(_, _)
CertAt(p, off) ==
    IF off <= 0 THEN Head(p) ELSE CertAt(Tail(p), off - Head(p).len)

\* One record of itrace per call of pgpParsePkts: where it was called, the
\* key index at the call, the armor type it found, the number of
\* certificates it decoded and the number of failures logged for the block
\* since.
Block(st, kn, o) ==
    [start |-> st, keyno |-> kn, armor |-> o.armor, ncerts |-> Len(o.certs),
     nfail |-> 0]
\* rpmlog(RPMLOG_ERR, ...) for the block being processed
NoteFail(tr) == [tr EXCEPT ![Len(tr)].nfail = @ + 1]

\* ------------------------------------------------------ arguments, key ids
HexDigits == {"0", "1", "2", "3", "4", "5", "6", "7", "8", "9",
              "a", "b", "c", "d", "e", "f", "A", "B", "C", "D", "E", "F"}
isxdigit(ch) == ch \in HexDigits

HexRun(n) == [k \in 1..n |-> IF k % 2 = 1 THEN "a" ELSE "7"]

ArgsAll ==
    {pre \o HexRun(n) \o tail :
        pre \in {<<"0", "x">>, <<"x">>},
        n \in {0, 7, 8, 9, 15, 16, 17},
        tail \in {<<>>, <<"g">>, <<"g", "a">>}}
ArgsFew == {<<"k">>, <<"0", "x">> \o HexRun(8)}

\* rpmExpand("%{_hkp_keyserver_query}", fn+2, NULL): empty, the template
\* left unexpanded, or a keyserver URL.
Expansions == {<<>>, <<"%", "{", "q", "}">>, <<"h", "k", "p", ":">>}

\* rstreqn(fn, "0x", 2)
rstreqn0x(a) == Len(a) >= 2 /\ a[1] = "0" /\ a[2] = "x"

\* for (i = 0; *s && isxdigit(*s); s++, i++) {};
RECURSIVE CountHex(_)
CountHex(str) ==
    IF str # <<>> /\ isxdigit(Head(str)) THEN 1 + CountHex(Tail(str)) ELSE 0

\* if (rstreqn(fn, "0x", 2)) { ...; if (i == 8 || i == 16) ...
LooksLikeKeyId(a) ==
    /\ rstreqn0x(a)
    /\ LET i == CountHex(SubSeq(a, 3, Len(a))) IN i = 8 \/ i = 16

\* if (t && *t != '%') fn = t;
ResolvedName(a, e) == IF e # NullStr /\ FirstChar(e) # "%" THEN e ELSE a

\* Variant: the length of the buffer is not looked at.
ReadFailed_NoLength(rc0, b) == rc0 # 0 \/ b = NullBuf

\* if (iorc || buf == NULL || blen < 64)
ReadFailed(rc0, b) == rc0 # 0 \/ b = NullBuf \/ SumLen(b) < MinBufLen

\* ----------------------------------------- rpmcliImportPubkeys and doImport
VerifyIdle ==
    /\ pkg = [sig |-> <<>>, hdr |-> <<>>] /\ flags = {} /\ cb = "none"
    /\ pc = "idle" /\ sigh = <<>> /\ fdDigests = <<>> /\ failed = 0
    /\ rc = "FAIL" /\ msg = "NULL" /\ diag = 0 /\ trace = <<>>

\* State at entry of rpmcliImportPubkeys: res = 0, before the first argument.
ImportEntry(w, arglists) ==
    /\ world = w
    /\ argv \in arglists
    /\ ipc = "next"
    /\ arg = <<>> /\ t = NullStr /\ fn = <<>> /\ iorc = 0 /\ buf = NullBuf
    /\ ires = 0 /\ keyring = {}
    /\ start = -1 /\ keyno = 0 /\ dres = 0
    /\ pkt = <<>> /\ pktlen = 0 /\ pkti = 0 /\ itrace = <<>>
    /\ VerifyIdle
    /\ BatchIdle

\* One source of any content.
InitImport == ImportEntry("all", {<<a>> : a \in ArgsFew})
\* One file of four segments.
InitLong == ImportEntry("long", {<< <<"k">> >>})
\* One file of any content.
InitFile == ImportEntry("all", {<< <<"k">> >>})
\* A batch of arguments of any form over few contents.
InitKeyId == ImportEntry("few", SeqsUpTo(ArgsAll, MaxArgs))

\* The head of the loop body, lines 89-106: the locals are set up and a
\* key id argument is expanded.
TakeArg ==
    /\ ipc = "next" /\ argv # <<>>
    /\ arg' = Head(argv)
    /\ argv' = Tail(argv)
    /\ buf' = NullBuf /\ iorc' = 0
    /\ IF LooksLikeKeyId(Head(argv))
       THEN \E e \in Expansions :
               /\ t' = e
               /\ fn' = ResolvedName(Head(argv), e)
       ELSE /\ t' = NullStr
            /\ fn' = Head(argv)
    /\ ipc' = "slurp"
    /\ UNCHANGED <<world, ires, keyring, start, keyno, dres, pkt, pktlen, pkti,
                   itrace, vvars, bvars>>

\* Variant: doImport decodes nothing when the buffer holds no marker.
Slurp_NoAttemptWithoutMarker ==
    /\ ipc = "slurp"
    /\ \E f \in Files(world) :
        /\ iorc' = f.iorc
        /\ buf' = f.buf
        /\ IF ReadFailed(f.iorc, f.buf)
           THEN /\ ires' = ires + 1
                /\ ipc' = "next"
                /\ UNCHANGED <<start, keyno, dres, itrace>>
           ELSE /\ ires' = ires
                /\ ipc' = IF strstr(f.buf, 0) = -1 THEN "next" ELSE "decode"
                /\ dres' = 0
                /\ keyno' = 1
                /\ start' = strstr(f.buf, 0)
                /\ itrace' = <<>>
    /\ UNCHANGED <<world, argv, arg, t, fn, keyring, pkt, pktlen, pkti, vvars, bvars>>

\* iorc = rpmioSlurp(fn, &buf, &blen); a failed read is counted, otherwise
\* doImport is entered: res = 0, keyno = 1, start = strstr(buf, pgpmark).
Slurp ==
    /\ ipc = "slurp"
    /\ \E f \in Files(world) :
        /\ iorc' = f.iorc
        /\ buf' = f.buf
        /\ IF ReadFailed(f.iorc, f.buf)
           THEN /\ ires' = ires + 1
                /\ ipc' = "next"
                /\ UNCHANGED <<start, keyno, dres, itrace>>
           ELSE /\ ires' = ires
                /\ ipc' = "decode"
                /\ dres' = 0
                /\ keyno' = 1
                /\ start' = strstr(f.buf, 0)
                /\ itrace' = <<>>
    /\ UNCHANGED <<world, argv, arg, t, fn, keyring, pkt, pktlen, pkti, vvars, bvars>>

\* if (pgpParsePkts(start, &pkt, &pktlen) == PGPARMOR_PUBKEY) { pkti = pkt;
\* ... } else { rpmlog(...); res++; }
DecodeBlock ==
    /\ ipc = "decode"
    /\ \E o \in pgpParsePkts(start) :
        /\ itrace' = LET tr == Append(itrace, Block(start, keyno, o))
                     IN IF o.armor = "PUBKEY" THEN tr ELSE NoteFail(tr)
        /\ IF o.armor = "PUBKEY"
           THEN /\ pkt' = o.certs
                /\ pktlen' = SumLen(o.certs)
                /\ pkti' = 0
                /\ dres' = dres
                /\ ipc' = IF SumLen(o.certs) > 0 THEN "walk" ELSE "more"
           ELSE /\ pkt' = <<>> /\ pktlen' = 0 /\ pkti' = 0
                /\ dres' = dres + 1
                /\ ipc' = "more"
    /\ UNCHANGED <<world, argv, arg, t, fn, iorc, buf, ires, keyring, start, keyno,
                   vvars, bvars>>

\* Variant: a certificate whose length cannot be determined is counted and
\* skipped, and the walk goes on.
WalkCert_BadLenSkips ==
    /\ ipc = "walk" /\ pktlen > 0
    /\ LET cert == CertAt(pkt, pkti) IN
        /\ IF cert.kind # "ok"
           THEN /\ dres' = dres + 1
                /\ itrace' = NoteFail(itrace)
                /\ keyring' = keyring
           ELSE /\ dres' = dres
                /\ itrace' = itrace
                /\ keyring' = keyring \cup {KeyAt(start, pkti)}
        /\ pkti' = pkti + cert.len
        /\ pktlen' = pktlen - cert.len
        /\ ipc' = IF pktlen - cert.len > 0 THEN "walk" ELSE "more"
    /\ UNCHANGED <<world, argv, arg, t, fn, iorc, buf, ires, start, keyno, pkt, vvars, bvars>>

\* Variant: an accepted certificate does not advance the walk.
WalkCert_NoAdvance ==
    /\ ipc = "walk" /\ pktlen > 0
    /\ LET cert == CertAt(pkt, pkti) IN
        IF cert.kind = "badlen"
        THEN /\ dres' = dres + 1
             /\ itrace' = NoteFail(itrace)
             /\ ipc' = "more"
             /\ UNCHANGED <<keyring, pkti, pktlen>>
        ELSE IF cert.kind = "ok"
        THEN /\ keyring' = keyring \cup {KeyAt(start, pkti)}
             /\ UNCHANGED <<dres, itrace, pkti, pktlen, ipc>>
        ELSE /\ dres' = dres + 1
             /\ itrace' = NoteFail(itrace)
             /\ keyring' = keyring
             /\ pkti' = pkti + cert.len
             /\ pktlen' = pktlen - cert.len
             /\ ipc' = IF pktlen - cert.len > 0 THEN "walk" ELSE "more"
    /\ UNCHANGED <<world, argv, arg, t, fn, iorc, buf, ires, start, keyno, pkt, vvars, bvars>>

\* One iteration of while (pktlen > 0), lines 48-64.
WalkCert ==
    /\ ipc = "walk" /\ pktlen > 0
    /\ LET cert == CertAt(pkt, pkti) IN
        IF cert.kind = "badlen"
        THEN /\ dres' = dres + 1
             /\ itrace' = NoteFail(itrace)
             /\ ipc' = "more"
             /\ UNCHANGED <<keyring, pkti, pktlen>>
        ELSE /\ IF cert.kind # "ok"
                THEN /\ dres' = dres + 1
                     /\ itrace' = NoteFail(itrace)
                     /\ keyring' = keyring
                ELSE /\ dres' = dres
                     /\ itrace' = itrace
                     /\ keyring' = keyring \cup {KeyAt(start, pkti)}
             /\ pkti' = pkti + cert.len
             /\ pktlen' = pktlen - cert.len
             /\ ipc' = IF pktlen - cert.len > 0 THEN "walk" ELSE "more"
    /\ UNCHANGED <<world, argv, arg, t, fn, iorc, buf, ires, start, keyno, pkt, vvars, bvars>>

\* Variant: the scan stops at the first block that logged a failure.
NextMarker_StopAfterFailure ==
    /\ ipc = "more"
    /\ LET nxt == IF dres = 0 /\ start # -1 /\ start + marklen < SumLen(buf)
                  THEN strstr(buf, start + marklen)
                  ELSE -1
       IN /\ start' = nxt
          /\ ipc' = IF nxt # -1 THEN "decode" ELSE "next"
          /\ ires' = IF nxt # -1 THEN ires ELSE ires + dres
    /\ keyno' = keyno + 1
    /\ pkt' = <<>> /\ pktlen' = 0 /\ pkti' = 0
    /\ UNCHANGED <<world, argv, arg, t, fn, iorc, buf, keyring, dres, itrace, vvars, bvars>>

\* Lines 72-80: look for the next marker, keyno++, free(pkt); when there is
\* none doImport returns res, which line 114 adds to the batch count.
NextMarker ==
    /\ ipc = "more"
    /\ LET nxt == IF start # -1 /\ start + marklen < SumLen(buf)
                  THEN strstr(buf, start + marklen)
                  ELSE -1
       IN /\ start' = nxt
          /\ ipc' = IF nxt # -1 THEN "decode" ELSE "next"
          /\ ires' = IF nxt # -1 THEN ires ELSE ires + dres
    /\ keyno' = keyno + 1
    /\ pkt' = <<>> /\ pktlen' = 0 /\ pkti' = 0
    /\ UNCHANGED <<world, argv, arg, t, fn, iorc, buf, keyring, dres, itrace, vvars, bvars>>

\* return res;
ImportReturn ==
    /\ ipc = "next" /\ argv = <<>>
    /\ ipc' = "returned"
    /\ UNCHANGED <<world, argv, arg, t, fn, iorc, buf, ires, keyring, start, keyno,
                   dres, pkt, pktlen, pkti, itrace, vvars, bvars>>

NextImport ==
    \/ TakeArg
    \/ Slurp
    \/ DecodeBlock
    \/ WalkCert
    \/ NextMarker
    \/ ImportReturn

SpecImport == InitImport /\ [][NextImport]_vars
SpecKeyId == InitKeyId /\ [][NextImport]_vars
SpecLong == InitLong /\ [][NextImport]_vars
\* Every call returns to its caller and the loops go on while their
\* conditions hold: a step that can be taken is taken.
SpecFileLive == InitFile /\ [][NextImport]_vars /\ WF_vars(NextImport)

\* ======================================================= claims, importer
\* The running iteration has fetched its source.
Fetching == ipc \in {"decode", "walk", "more"}
\* The iteration for arg is over.
ArgDone == ipc \in {"next", "returned"} /\ arg # <<>>
\* doImport ran for arg and returned.
ImportDone == ArgDone /\ itrace # <<>>

\* The source could not be read or is shorter than 64 bytes.
SourceUnusable == iorc # 0 \/ buf = NullBuf \/ SumLen(buf) <= MinBufLen - 1

\* C7: a source that could not be read or is shorter than 64 bytes is
\* rejected before any parse attempt: doImport does not run on it, one
\* failure is counted and the keyring is unchanged.
C7_ShortSourceRejected ==
    /\ Fetching => ~SourceUnusable
    /\ (ArgDone /\ SourceUnusable) =>
          /\ itrace = <<>> /\ keyno = 0
          /\ ires = 1
          /\ keyring = {}

\* A readable buffer of 63 bytes that holds a marker.
C7_Witness ==
    /\ ArgDone /\ iorc = 0 /\ buf # NullBuf /\ SumLen(buf) = MinBufLen - 1
    /\ \E k \in 1..Len(buf) : buf[k].kind = "mark"
    /\ ires = 1 /\ keyring = {}

\* Offsets of the marker occurrences of a buffer: all of them, and those
\* of its text up to the first NUL byte.
AllMarks(b) == {Off(b, k) : k \in {j \in 1..Len(b) : b[j].kind = "mark"}}
TextMarks(b) ==
    {Off(b, k) : k \in {j \in 1..Len(b) :
                          /\ b[j].kind = "mark"
                          /\ \A i \in 1..(j - 1) : b[i].kind # "nul"}}
\* The k-th smallest element of a set of offsets.
Nth(S, k) == CHOOSE x \in S : Cardinality({y \in S : y < x}) = k - 1

RECURSIVE ExpectedFails(_)
ExpectedFails(p) ==
    IF p = <<>> THEN 0
    ELSE IF Head(p).kind = "badlen" THEN 1
    ELSE (IF Head(p).kind = "reject" THEN 1 ELSE 0) + ExpectedFails(Tail(p))

RECURSIVE ExpectedKeys(_, _, _)
ExpectedKeys(st, p, off) ==
    IF p = <<>> \/ Head(p).kind = "badlen" THEN {}
    ELSE (IF Head(p).kind = "ok" THEN {<<st, off>>} ELSE {})
         \cup ExpectedKeys(st, Tail(p), off + Head(p).len)

RECURSIVE SumFails(_)
SumFails(tr) == IF tr = <<>> THEN 0 ELSE Head(tr).nfail + SumFails(Tail(tr))

KeysOfBlock(st) == {key \in keyring : key[1] = st}

\* Every marker of the set marks is decoded once, in scan order, with key
\* index 1, 2, ...; the failures of one block stay with that block; every
\* accepted certificate is in the keyring; a block that is not a public key
\* followed by a block of accepted certificates gives one failure and the keys
\* of the second block.
BlocksIsolated(marks) ==
    /\ \A k \in 1..Len(itrace) :
          /\ itrace[k].keyno = k
          /\ marks # {} =>
                /\ k <= Cardinality(marks)
                /\ itrace[k].start = Nth(marks, k)
    /\ (ImportDone /\ marks # {}) => Len(itrace) = Cardinality(marks)
    /\ ipc = "more" =>
          LET last == itrace[Len(itrace)] IN
          /\ last.armor # "PUBKEY" => last.nfail = 1 /\ KeysOfBlock(start) = {}
          /\ last.armor = "PUBKEY" =>
                /\ last.nfail = ExpectedFails(pkt)
                /\ KeysOfBlock(start) = ExpectedKeys(start, pkt, 0)
    /\ ImportDone => ires = SumFails(itrace)
    /\ (/\ ImportDone /\ Len(itrace) = 2
        /\ itrace[1].armor # "PUBKEY"
        /\ itrace[2].armor = "PUBKEY" /\ itrace[2].ncerts >= 1 /\ itrace[2].nfail = 0)
          => /\ ires = 1
             /\ Cardinality(KeysOfBlock(itrace[2].start)) = itrace[2].ncerts

ExactKeyId(a) ==
    /\ Len(a) \in {10, 18}
    /\ a[1] = "0" /\ a[2] = "x"
    /\ \A k \in 3..Len(a) : a[k] \in HexDigits

\* C9: an argument is expanded through the keyserver template iff it is
\* "0x" followed by exactly 8 or 16 hex digits; any other argument is used
\* verbatim as the source name.
C9_KeyIdExact ==
    arg # <<>> =>
        /\ (t # NullStr) <=> ExactKeyId(arg)
        /\ ~ExactKeyId(arg) => fn = arg

\* The expansion is usable: not empty and not starting with a placeholder.
Usable(e) == e # <<>> /\ e[1] # "%"

\* C10: the expansion replaces the source name only when it is usable;
\* otherwise the 0x literal is the name that is fetched.
C10_UsableExpansion ==
    (arg # <<>> /\ t # NullStr) => fn = (IF Usable(t) THEN t ELSE arg)

\* The certificates of p that lie before byte offset off.
RECURSIVE Before(_, _)
Before(p, off) ==
    IF p = <<>> \/ off <= 0 THEN <<>>
    ELSE <<Head(p)>> \o Before(Tail(p), off - Head(p).len)

Rejects(p) == Cardinality({n \in 1..Len(p) : p[n].kind = "reject"})
KeysOf(st, p) ==
    {KeyAt(st, SumLen(SubSeq(p, 1, n - 1))) : n \in {m \in 1..Len(p) : p[m].kind = "ok"}}

\* C16: in a decoded public-key block the walk has passed only certificates
\* whose length was determined; each rejected one is one failure, each
\* accepted one is in the keyring, and the offset has advanced by their
\* lengths.  The walk ends at the end of the block or at the first
\* certificate whose length cannot be determined, which is one more failure;
\* what follows it is neither imported nor counted.  Every marker of the text
\* is decoded whatever failed in the blocks before it.
C16_CertWalk ==
    /\ (ipc \in {"walk", "more"} /\ itrace[Len(itrace)].armor = "PUBKEY") =>
          LET passed == Before(pkt, pkti)
              last == itrace[Len(itrace)]
              stopped == ipc = "more" /\ pktlen > 0
          IN /\ pkti = SumLen(passed)
             /\ pkti + pktlen = SumLen(pkt)
             /\ \A n \in 1..Len(passed) : passed[n].kind # "badlen"
             /\ KeysOfBlock(start) = KeysOf(start, passed)
             /\ stopped => CertAt(pkt, pkti).kind = "badlen"
             /\ last.nfail = Rejects(passed) + (IF stopped THEN 1 ELSE 0)
    /\ ImportDone => \A m \in TextMarks(buf) : \E k \in 1..Len(itrace) : itrace[k].start = m

\* A block of two certificates whose first has no determinable length: one
\* failure, no key, and the next marker was decoded.
C16_Witness ==
    /\ ImportDone /\ Len(itrace) = 2
    /\ itrace[1].armor = "PUBKEY" /\ itrace[1].ncerts = 2 /\ itrace[1].nfail = 1
    /\ KeysOfBlock(itrace[1].start) = {}
    /\ itrace[2].armor = "PUBKEY" /\ KeysOfBlock(itrace[2].start) # {}

\* The number of decode attempts for a set of marker occurrences.
Attempts(marks) == IF marks = {} THEN 1 ELSE Cardinality(marks)

\* A buffer with no marker among marks: one decode attempt at key index 1,
\* which is not a public key, failure count 1, keyring unchanged; in general
\* as many decode attempts as markers, and one when there is none.
DecodeAttempts(marks) ==
    (ArgDone /\ ~SourceUnusable) =>
        /\ marks = {} =>
              /\ Len(itrace) = 1
              /\ itrace[1].keyno = 1 /\ itrace[1].armor # "PUBKEY" /\ itrace[1].nfail = 1
              /\ ires = 1
              /\ keyring = {}
        /\ Len(itrace) = Attempts(marks)

C20_DoImportTerminates ==
    /\ [](ipc = "walk" =>
            \/ CertAt(pkt, pkti).kind = "badlen"
            \/ CertAt(pkt, pkti).len \in 1..pktlen)
    /\ [][(ipc = "more" /\ ipc' = "decode") =>
            (start' > start /\ start' >= start + marklen /\ start' < SumLen(buf))]_vars
    /\ [][ipc = "walk" =>
            (pktlen' < pktlen /\ pktlen' >= 0 /\ (ipc' = "walk" <=> pktlen' > 0))
            \/ (ipc' = "more" /\ pktlen' = pktlen /\ CertAt(pkt, pkti).kind = "badlen")]_vars
    /\ (Fetching ~> ImportDone)

\* doImport returned after two outer iterations, one of them over a block
\* of two certificates.
C20_Witness ==
    /\ ImportDone /\ Len(itrace) = 2
    /\ \E k \in 1..Len(itrace) :
          itrace[k].armor = "PUBKEY" /\ itrace[k].ncerts = 2 /\ itrace[k].nfail = 0

\* ================================================== rpmcliVerifySignatures
\* Largest number of names in a verification batch.
MaxFiles == 2

\* The k-th name of a batch.
FileName(k) == <<"pkg", k>>
Batches == {[k \in 1..n |-> FileName(k)] : n \in 0..MaxFiles}

\* What a file that can be opened holds: a container that verifies and one
\* whose only item has no key.
GoodContainer ==
    [sig |-> <<Item("OK", 1, NODIGESTS, RPMSIG_HEADER, 1, "OK")>>,
     hdr |-> <<PayloadDigestItem("OK")>>]
NoKeyContainer ==
    [sig |-> <<Item("OK", 1, NOSIGNATURES, RPMSIG_BOTH, 2, "NOKEY")>>, hdr |-> <<>>]
BatchContainers == {GoodContainer, NoKeyContainer}

\* rpmcliQueryFlags, and the vsflags lines 355-360 make of it.
QueryFlags == SUBSET {"QUERY_DIGEST", "QUERY_SIGNATURE"}
vsflagsOf(q) ==
    (IF "QUERY_DIGEST" \in q THEN NODIGESTS ELSE {})
    \cup (IF "QUERY_SIGNATURE" \in q THEN NOSIGNATURES ELSE {})

\* rpmpkgVerifySigs: formatVerbose if rpmIsVerbose(), formatDefault otherwise.
SigsCallback(verbose) == IF verbose THEN "formatVerbose" ELSE "formatDefault"

\* One record of blog per name: the name, what Fopen gave ("ok", "null" for
\* fd == NULL, "error" for Ferror(fd)), what the pipeline returned ("-" while
\* it has not), the steps taken for the name in order, and the request the
\* checkpoint observed ("-" before the checkpoint).
FileRec(name, opened) ==
    [arg |-> name, opened |-> opened, vrc |-> "-", steps |-> <<"open">>, seen |-> "-"]
Step(log, what) == [log EXCEPT ![Len(log)].steps = Append(@, what)]

\* The locals of a pipeline call that is not running.
PipelineIdle ==
    /\ pkg' = [sig |-> <<>>, hdr |-> <<>>]
    /\ pc' = "idle" /\ sigh' = <<>> /\ fdDigests' = <<>> /\ failed' = 0
    /\ rc' = "FAIL" /\ msg' = "NULL" /\ diag' = 0 /\ trace' = <<>>

\* State at entry of rpmcliVerifySignatures, after line 360.
InitBatch ==
    /\ bnames \in Batches
    /\ bnext = 0 /\ bpc = "loop" /\ bres = 0 /\ fdopen = FALSE
    /\ pending = "no" /\ blog = <<>>
    /\ flags \in {vsflagsOf(q) : q \in QueryFlags}
    /\ cb \in {SigsCallback(v) : v \in BOOLEAN}
    /\ pkg = [sig |-> <<>>, hdr |-> <<>>]
    /\ pc = "idle" /\ sigh = <<>> /\ fdDigests = <<>> /\ failed = 0
    /\ rc = "FAIL" /\ msg = "NULL" /\ diag = 0 /\ trace = <<>>
    /\ ImportIdle

\* Lines 362-368: arg = *argv++; fd = Fopen(arg, "r.ufdio"); a failed open is
\* counted, otherwise rpmpkgVerifySigs calls the pipeline on fd.
BatchTake ==
    /\ bpc = "loop" /\ bnext < Len(bnames)
    /\ bnext' = bnext + 1
    /\ \E opened \in {"ok", "null", "error"} :
        /\ blog' = LET log == Append(blog, FileRec(bnames[bnext + 1], opened))
                   IN IF opened = "ok" THEN Step(log, "begin") ELSE log
        /\ fdopen' = (opened # "null")
        /\ IF opened = "ok"
           THEN /\ bres' = bres
                /\ bpc' = "verify"
                /\ pkg' \in BatchContainers
                /\ pc' = "lead"
           ELSE /\ bres' = bres + 1
                /\ bpc' = "close"
                /\ UNCHANGED <<pkg, pc>>
    /\ UNCHANGED <<bnames, pending, flags, cb, sigh, fdDigests, failed, rc, msg, diag,
                   trace, ivars>>

\* A step of the pipeline called for the open file.
BatchPipeline ==
    /\ bpc = "verify"
    /\ Next

\* Variant: the batch returns at the first file that fails verification.
BatchTally_StopAtFailure ==
    /\ bpc = "verify" /\ pc = "done"
    /\ bres' = IF rc # "OK" THEN bres + 1 ELSE bres
    /\ bpc' = IF rc # "OK" THEN "returned" ELSE "close"
    /\ blog' = [Step(blog, "end") EXCEPT ![Len(blog)].vrc = rc]
    /\ PipelineIdle
    /\ UNCHANGED <<bnames, bnext, fdopen, pending, flags, cb, ivars>>

\* Lines 368-369: rpmpkgVerifySigs returns rc, a non-zero rc is counted.
BatchTally ==
    /\ bpc = "verify" /\ pc = "done"
    /\ bres' = IF rc # "OK" THEN bres + 1 ELSE bres
    /\ bpc' = "close"
    /\ blog' = [Step(blog, "end") EXCEPT ![Len(blog)].vrc = rc]
    /\ PipelineIdle
    /\ UNCHANGED <<bnames, bnext, fdopen, pending, flags, cb, ivars>>

\* Fclose(fd);
BatchClose ==
    /\ bpc = "close"
    /\ fdopen' = FALSE
    /\ blog' = Step(blog, "close")
    /\ bpc' = "poll"
    /\ UNCHANGED <<bnames, bnext, bres, pending, vvars, ivars>>

\* Variant: the checkpoint is also taken before the file is closed.
BatchPoll_BeforeClose ==
    /\ bpc \in {"close", "poll"}
    /\ blog' = [Step(blog, "poll") EXCEPT ![Len(blog)].seen = pending]
    /\ pending' = "no"
    /\ bpc' = "loop"
    /\ UNCHANGED <<bnames, bnext, bres, fdopen, vvars, ivars>>

\* rpmsqPoll(): the checkpoint observes a pending request; its return value
\* is not looked at and the loop goes on.
BatchPoll ==
    /\ bpc = "poll"
    /\ blog' = [Step(blog, "poll") EXCEPT ![Len(blog)].seen = pending]
    /\ pending' = "no"
    /\ bpc' = "loop"
    /\ UNCHANGED <<bnames, bnext, bres, fdopen, vvars, ivars>>

\* Lines 362, 375-376: no name is left, return res.
BatchReturn ==
    /\ bpc = "loop" /\ bnext = Len(bnames)
    /\ bpc' = "returned"
    /\ UNCHANGED <<bnames, bnext, bres, fdopen, pending, blog, vvars, ivars>>

\* A cancellation request (a signal) arrives while the batch runs.
Request ==
    /\ bpc \notin {"idle", "returned"} /\ pending = "no"
    /\ pending' = IF fdopen THEN "midfile" ELSE "boundary"
    /\ UNCHANGED <<bnames, bnext, bpc, bres, fdopen, blog, vvars, ivars>>

NextBatch ==
    \/ BatchTake
    \/ BatchPipeline
    \/ BatchTally
    \/ BatchClose
    \/ BatchPoll
    \/ BatchReturn
    \/ Request

SpecBatch == InitBatch /\ [][NextBatch]_vars

\* ========================================================== claims, batch
BatchReturned == bpc = "returned"
\* The file of record r failed to open or failed verification.
FileFailed(r) == r.opened # "ok" \/ r.vrc = "FAIL"
FailedFiles == {k \in 1..Len(blog) : FileFailed(blog[k])}

\* C12: the names are taken in list order, the count is the number of names
\* taken so far that failed to open or failed verification, and the batch
\* returns only after every name was taken, whatever failed.
C12_BatchCount ==
    /\ Len(blog) = bnext /\ bnext <= Len(bnames)
    /\ \A k \in 1..Len(blog) : blog[k].arg = bnames[k]
    /\ bpc \in {"loop", "close", "poll", "returned"} => bres = Cardinality(FailedFiles)
    /\ bres <= Len(blog)
    /\ BatchReturned =>
          /\ Len(blog) = Len(bnames)
          /\ \A k \in 1..Len(blog) :
                blog[k].opened = "ok" => blog[k].vrc \in {"OK", "FAIL"}

\* The first file fails verification, the second one is verified and is OK.
C12_Witness ==
    /\ BatchReturned /\ Len(blog) = 2 /\ bres = 1
    /\ blog[1].opened = "ok" /\ blog[1].vrc = "FAIL"
    /\ blog[2].opened = "ok" /\ blog[2].vrc = "OK"

\* The steps of a name in order: with and without a file that opened.
StepsOpened == <<"open", "begin", "end", "close", "poll">>
StepsNotOpened == <<"open", "close", "poll">>
IsPrefix(a, b) == Len(a) <= Len(b) /\ a = SubSeq(b, 1, Len(a))

\* C13: for every name the steps are open, the whole pipeline, close,
\* checkpoint, in this order; the pipeline runs only on the open file before
\* its close, the checkpoint is taken with no file open and no pipeline
\* running, and a request is observed at a checkpoint and nowhere else.
C13_CheckpointAtBoundary ==
    /\ \A k \in 1..Len(blog) :
          LET r == blog[k]
              all == IF r.opened = "ok" THEN StepsOpened ELSE StepsNotOpened
          IN /\ IsPrefix(r.steps, all)
             /\ (k < Len(blog) \/ bpc \in {"loop", "returned"}) => r.steps = all
             /\ r.seen # "-" <=> r.steps = all
    /\ pc # "idle" =>
          (bpc = "verify" /\ fdopen /\ blog[Len(blog)].steps = <<"open", "begin">>)
    /\ bpc = "poll" => (~fdopen /\ pc = "idle")
    /\ pending = "midfile" => (Len(blog) >= 1 /\ blog[Len(blog)].seen = "-")

\* A request that arrived while a file was open was observed at the
\* checkpoint of that file.
C13_Witness ==
    /\ BatchReturned /\ Len(blog) = 2
    /\ blog[1].opened = "ok" /\ blog[1].seen = "midfile" /\ blog[1].steps = StepsOpened
    /\ blog[2].seen = "no"

====
